---------------------------- MODULE Spec2Model ----------------------------
(***************************************************************************)
(* Checkmk plugin "ms_intune": the agent based check plugins for app       *)
(* licenses, Apple ADE tokens, Apple VPP tokens, the Apple MDM push        *)
(* certificate and the certificate connectors.                             *)
(*                                                                         *)
(* One check cycle: the framework hands the string table of the agent     *)
(* section to the parse function; a parse that raises ends the cycle.      *)
(* Otherwise the framework either runs the discovery function on the       *)
(* section, or calls the check function with an item and the rule's        *)
(* parameters and collects what the check yields (or the exception it      *)
(* raises); then the section is discarded. The expiry checks read the      *)
(* clock when they are called and yield afterwards, so the clock can       *)
(* advance in between.                                                     *)
(*                                                                         *)
(* Conventions of the model:                                               *)
(*  - a text is a sequence of one-character strings, so that texts can be  *)
(*    concatenated and sliced;                                             *)
(*  - Python's None is the empty sequence <<>>, which is falsy like None;  *)
(*    an optional text or exception x is <<x>>, None when absent;          *)
(*  - an Optional number is a set: {} for None, {x} for x;                 *)
(*  - a float is modelled by the exact rational: a quotient is kept as     *)
(*    numerator and denominator and compared by cross multiplication;      *)
(*  - a timestamp text is [iso, epoch]: whether datetime.fromisoformat     *)
(*    accepts it, and the POSIX timestamp it then denotes;                 *)
(*  - a string table is [json, doc]: whether json.loads accepts its text,  *)
(*    and the document the text then denotes; a JSON object is a record,   *)
(*    so an object that lacks a key is a record that lacks a field.        *)
(***************************************************************************)
EXTENDS Integers, Sequences, FiniteSets, TLC

VARIABLES
    now,        \* the system clock, in seconds
    pc,         \* position of the cycle: "idle", "parsed", "failed",
                \* "discovered", "checking", "done"
    plugin,     \* the check plugin the cycle runs
    payload,    \* the string table of the cycle
    section,    \* the parsed section
    seen,       \* the names the parses of earlier cycles had in their name
                \* sets (the set is a local of the parse function)
    discovered, \* the services the discovery function yielded, as a bag
    call,       \* the check invocation: item, params and the clock reading
    yielded,    \* what the check function yielded, in order
    raised      \* the exception the parse or check function raised, or None

vars ==
    <<now, pc, plugin, payload, section, seen, discovered, call, yielded,
      raised>>

---------------------------------------------------------------------------
(* Bounds of the model *)

MaxTotal == 6
MaxOver  == 1
MaxNow   == 1
MaxEpoch == 3
MaxRecords == 3

---------------------------------------------------------------------------
(* Python and framework values *)

None == <<>>

Truthy(x) == x # None

OK   == "OK"
WARN == "WARN"
CRIT == "CRIT"

Result(state, summary, details) ==
    [kind |-> "Result", state |-> state, summary |-> summary, details |-> details]

\* Metric(name, value, levels=None): levels None is stored as (None, None)
OptLevels(levels) ==
    IF levels = None THEN <<{}, {}>> ELSE <<{levels[1]}, {levels[2]}>>

Metric(name, value, levels) ==
    [kind |-> "Metric", name |-> name, value |-> value, levels |-> levels]

Abs(x) == IF x < 0 THEN -x ELSE x

\* a string table whose text is JSON for doc, and one whose text is no JSON
StringTable(doc) == [json |-> TRUE, doc |-> doc]

NotJson(doc) == [json |-> FALSE, doc |-> doc]

\* what a parse function gives: the value it returns, or the exception that
\* leaves it; no parse function catches an exception, so nothing is returned
\* when one is raised
Returned(parsed) == [parsed |-> parsed, raised |-> None]

parse_swallows(exc, parsed) == [parsed |-> parsed, raised |-> None]

parse_raises(exc, parsed) == [parsed |-> None, raised |-> <<exc>>]

\* Service(item=item)
ServiceWithoutItem(item) == [item |-> None]

Service(item) == [item |-> item]

\* the services a discovery function yields, as a bag (service -> how often),
\* given the service it yields for each group of the section
ServiceBag(yields) ==
    [service \in {yields[group] : group \in DOMAIN yields} |->
        Cardinality({group \in DOMAIN yields : yields[group] = service})]

\* num / den * 100 cut to hundredths
TruncPct2(num, den) == (num * 10000) \div den

\* round(num / den * 100, 2) for den > 0, in hundredths (round half to even)
RoundPct2(num, den) ==
    LET n == num * 10000
        q == n \div den
        r == n % den
    IN  IF 2 * r > den THEN q + 1
        ELSE IF 2 * r < den THEN q
        ELSE IF q % 2 = 0 THEN q ELSE q + 1

---------------------------------------------------------------------------
(* ms_intune_app_licenses *)

IntuneApp(type, name, publisher, total, consumed, assigned) ==
    [app_type |-> type, app_name |-> name, app_publisher |-> publisher,
     app_license_total |-> total, app_license_consumed |-> consumed,
     app_assigned |-> assigned]

LicServiceName(item) == item.app_name \o <<" ", "-", " ">> \o item.app_type

IntuneAppFields ==
    {"app_type", "app_name", "app_publisher", "app_license_total",
     "app_license_consumed", "app_assigned"}

\* parsed[service_name] = value: a key that is there already is overwritten
dict_set_default(parsed, key, value) == parsed @@ (key :> value)

dict_set(parsed, key, value) == (key :> value) @@ parsed

\* item['app_name'] and item['app_type'] raise KeyError for a missing key,
\* IntuneApp(**item) raises TypeError unless the keys are the fields
RECURSIVE parse_ms_intune_app_licenses_from(_, _, _)
parse_ms_intune_app_licenses_from(doc, i, parsed) ==
    IF i > Len(doc) THEN Returned(parsed)
    ELSE LET item == doc[i]
         IN  IF ~ ({"app_name", "app_type"} \subseteq DOMAIN item)
             THEN parse_raises("KeyError", parsed)
             ELSE IF DOMAIN item # IntuneAppFields
             THEN parse_raises("TypeError", parsed)
             ELSE parse_ms_intune_app_licenses_from(
                      doc, i + 1,
                      dict_set(parsed, LicServiceName(item),
                               IntuneApp(item.app_type, item.app_name,
                                         item.app_publisher,
                                         item.app_license_total,
                                         item.app_license_consumed,
                                         item.app_assigned)))

parse_ms_intune_app_licenses(string_table) ==
    IF ~ string_table.json THEN parse_raises("JSONDecodeError", <<>>)
    ELSE parse_ms_intune_app_licenses_from(string_table.doc, 1, <<>>)

discover_ms_intune_app_licenses(sec) ==
    ServiceBag([group \in DOMAIN sec |-> Service(group)])

LicDefaultParamsAbsolute ==
    [lic_unit_available_lower |->
         <<"lic_unit_available_lower_abs", <<"fixed", <<10, 5>>>>>>,
     lic_total_min |-> 1]

LicDefaultParams ==
    [lic_unit_available_lower |->
         <<"lic_unit_available_lower_pct", <<"fixed", <<10, 5>>>>>>,
     lic_total_min |-> 1]

\* available_percent < level, with available_percent =
\* lic_units_available / app_license_total * 100 and app_license_total > 0
available_percent_below_inclusive(available, total, level) ==
    available * 100 <= level * total

available_percent_below(available, total, level) ==
    available * 100 < level * total

\* app_license_consumed > app_license_total - level
consumed_above_inclusive(consumed, total, level) ==
    consumed >= total - level

consumed_above(consumed, total, level) ==
    consumed > total - level

\* lic_units_available = total - consumed, not clamped at 0
lic_units_available_clamped(total, consumed) ==
    IF total > consumed THEN total - consumed ELSE 0

lic_units_available(total, consumed) == total - consumed

\* the levels attached to the consumed_pct and consumed metrics
levels_consumed_pct_available(warning_level, critical_level) ==
    <<{warning_level}, {critical_level}>>

levels_consumed_pct(warning_level, critical_level) ==
    <<{100 - warning_level}, {100 - critical_level}>>

levels_consumed_abs(total, warning_level, critical_level) ==
    <<{total - warning_level}, {total - critical_level}>>

\* result_level: the text of the levels is set whenever levels are compared,
\* whatever state the comparison gives
result_level_if_fired(state, text) == IF state = OK THEN None ELSE text

result_level(state, text) == text

\* the threshold block of the check: state, text of the levels, metric levels
LicThresholds(license, params) ==
    LET total     == license.app_license_total
        consumed  == license.app_license_consumed
        available == lic_units_available(total, consumed)
        off == [state |-> OK, level |-> None,
                abs |-> <<{}, {}>>, pct |-> <<{}, {}>>]
        lv  == params.lic_unit_available_lower
    IN  IF total >= params.lic_total_min
        THEN IF Truthy(lv[2][2])
             THEN LET warning_level  == lv[2][2][1]
                      critical_level == lv[2][2][2]
                  IN  IF lv[1] = "lic_unit_available_lower_pct"
                      THEN LET result_state ==
                                IF available_percent_below(
                                       available, total, critical_level)
                                THEN CRIT
                                ELSE IF available_percent_below(
                                            available, total, warning_level)
                                     THEN WARN ELSE OK
                           IN
                           [state |-> result_state,
                            level |-> result_level(
                                result_state,
                                <<"pct", warning_level, critical_level>>),
                            abs |-> <<{}, {}>>,
                            pct |-> levels_consumed_pct(
                                warning_level, critical_level)]
                      ELSE LET result_state ==
                                IF consumed_above(
                                       consumed, total, critical_level)
                                THEN CRIT
                                ELSE IF consumed_above(
                                            consumed, total, warning_level)
                                     THEN WARN ELSE OK
                           IN
                           [state |-> result_state,
                            level |-> result_level(
                                result_state,
                                <<"abs", warning_level, critical_level>>),
                            abs |-> levels_consumed_abs(
                                total, warning_level, critical_level),
                            pct |-> <<{}, {}>>]
             ELSE off
        ELSE off

\* the check function: [yielded, raised]
check_ms_intune_app_licenses(item, params, sec) ==
    IF item \notin DOMAIN sec
    THEN [yielded |-> <<>>, raised |-> None]
    ELSE LET license == sec[item]
             total    == license.app_license_total
             consumed == license.app_license_consumed
         IN  IF total = 0
             THEN [yielded |-> <<>>, raised |-> <<"ZeroDivisionError">>]
             ELSE LET pct2 == RoundPct2(consumed, total)
                      available == lic_units_available(total, consumed)
                      th == LicThresholds(license, params)
                  IN  [yielded |->
                         << Result(th.state,
                                   [consumed_pct |-> pct2,
                                    consumed |-> consumed,
                                    total |-> total,
                                    available |-> available,
                                    level |-> th.level],
                                   license),
                            Metric("ms_intune_app_licenses_total", total,
                                   <<{}, {}>>),
                            Metric("ms_intune_app_licenses_consumed", consumed,
                                   th.abs),
                            Metric("ms_intune_app_licenses_consumed_pct", pct2,
                                   th.pct),
                            Metric("ms_intune_app_licenses_available",
                                   available, <<{}, {}>>) >>,
                       raised |-> None]

\* inputs of the license check
AppName == <<"X">>
AppType == <<"T">>
AppPublisher == <<"P">>

LicExamples ==
    {<<100, c>> : c \in {89, 90, 91, 94, 95, 96, 100, 101}}
    \cup {<<301, 298>>}

LicCounts ==
    ((0..MaxTotal) \X (0..(MaxTotal + MaxOver))) \cup LicExamples

LicPayloads ==
    {StringTable(<<>>), NotJson(<<>>)} \cup
    {StringTable(
         <<IntuneApp(AppType, AppName, AppPublisher, tc[1], tc[2], TRUE)>>) :
        tc \in LicCounts}

LicLevels ==
    {<<"lic_unit_available_lower_pct", <<"fixed", l>>>> :
        l \in {<<10, 5>>, <<50, 25>>, <<25, 50>>, <<1, 0>>, <<0, 0>>}}
    \cup
    {<<"lic_unit_available_lower_abs", <<"fixed", l>>>> :
        l \in {<<10, 5>>, <<2, 1>>, <<1, 2>>, <<1, -1>>, <<0, 0>>}}
    \cup
    {<<m, <<"no_levels", None>>>> :
        m \in {"lic_unit_available_lower_pct", "lic_unit_available_lower_abs"}}

LicParams ==
    {[lic_unit_available_lower |-> l, lic_total_min |-> m] :
        l \in LicLevels, m \in {0, 1, 3}}
    \cup {LicDefaultParams}

LicItems == {AppName \o <<" ", "-", " ">> \o AppType, <<"Y">>}

---------------------------------------------------------------------------
(* Framework: check_levels with lower levels, and timestamps *)

\* datetime.fromisoformat(text).timestamp(): None stands for ValueError
FromIsoTimestamp(text) == IF text.iso THEN <<text.epoch>> ELSE None

\* the two render functions the checks pass to check_levels:
\* render.timespan, and lambda x: f"{render.timespan(abs(x))} ago"
RenderTimespan == "render.timespan"
RenderAgo == "render.timespan ago"

Render(render_func, x) ==
    IF render_func = RenderAgo THEN [span |-> Abs(x), ago |-> TRUE]
    ELSE [span |-> x, ago |-> FALSE]

\* check_levels(value, levels_lower=levels, metric_name=metric_name,
\*              label=label, render_func=render_func): what it yields.
\* No upper levels are ever passed, so its metric carries no levels.
check_levels(value, levels, metric_name, label, render_func) ==
    LET fixed == levels # None /\ levels[1] = "fixed"
        state == IF fixed /\ value < levels[2][2] THEN CRIT
                 ELSE IF fixed /\ value < levels[2][1] THEN WARN
                 ELSE OK
        text  == IF state = OK THEN None ELSE levels[2]
    IN  << Result(state,
                  [label |-> label, value |-> Render(render_func, value),
                   levels |-> text],
                  None) >>
        \o (IF metric_name = None THEN <<>>
            ELSE <<Metric(metric_name[1], value, <<{}, {}>>)>>)

\* x[-4:]
Last3(x) == SubSeq(x, IF Len(x) > 3 THEN Len(x) - 2 ELSE 1, Len(x))

Last4(x) == SubSeq(x, IF Len(x) > 4 THEN Len(x) - 3 ELSE 1, Len(x))

ExpiryDefaultLevels == <<"fixed", <<1209600, 432000>>>>

\* datetime.now().timestamp(): the check reads the clock once, when it is
\* called, and computes the timespan from that reading
datetime_now_again == now

datetime_now == call.now

---------------------------------------------------------------------------
(* ms_intune_apple_ade_tokens *)

AdeToken(appleid, expiration, id, name, type) ==
    [token_appleid |-> appleid, token_expiration |-> expiration,
     token_id |-> id, token_name |-> name, token_type |-> type]

\* token_names = set(): the name set of a parse starts empty
token_names_kept == seen

token_names_set == {}

AdeTokenFields ==
    {"token_appleid", "token_expiration", "token_id", "token_name",
     "token_type"}

\* item["token_name"] and item['token_id'] raise KeyError for a missing key,
\* AdeToken(**item) raises TypeError unless the keys are the fields
RECURSIVE parse_ms_intune_apple_ade_tokens_from(_, _, _, _)
parse_ms_intune_apple_ade_tokens_from(doc, i, parsed, token_names) ==
    IF i > Len(doc) THEN Returned(parsed)
    ELSE LET item == doc[i]
         IN  IF "token_name" \notin DOMAIN item
             THEN parse_raises("KeyError", parsed)
             ELSE LET token_name == item.token_name
                      known == token_name \in token_names
                  IN  IF known /\ "token_id" \notin DOMAIN item
                      THEN parse_raises("KeyError", parsed)
                      ELSE IF DOMAIN item # AdeTokenFields
                      THEN parse_raises("TypeError", parsed)
                      ELSE parse_ms_intune_apple_ade_tokens_from(
                               doc, i + 1,
                               ((IF known
                                 THEN token_name \o <<" ">>
                                          \o Last4(item.token_id)
                                 ELSE token_name) :>
                                   AdeToken(item.token_appleid, item.token_expiration,
                                            item.token_id, item.token_name,
                                            item.token_type))
                               @@ parsed,
                               IF known THEN token_names
                               ELSE token_names \cup {token_name})

parse_ms_intune_apple_ade_tokens(string_table) ==
    IF ~ string_table.json THEN parse_raises("JSONDecodeError", <<>>)
    ELSE parse_ms_intune_apple_ade_tokens_from(string_table.doc, 1, <<>>, token_names_set)

discover_ms_intune_apple_ade_tokens(sec) ==
    ServiceBag([group \in DOMAIN sec |-> Service(group)])

AdeDefaultParams == [token_expiration |-> ExpiryDefaultLevels]

\* params.get("token_expiration")
ade_params_levels_none(params) == <<"no_levels", None>>

ade_params_levels_ignored(params) == <<"fixed", <<0, 0>>>>

ade_params_levels_token_expiration(params) == params.token_expiration

\* token_expiration_timespan > 0
ade_token_remaining_inclusive(timespan) == timespan >= 0

ade_token_remaining(timespan) == timespan > 0

check_ms_intune_apple_ade_tokens(item, params, sec, clock) ==
    IF item \notin DOMAIN sec
    THEN [yielded |-> <<>>, raised |-> None]
    ELSE LET token  == sec[item]
             levels == ade_params_levels_token_expiration(params)
             stamp  == FromIsoTimestamp(token.token_expiration)
         IN  IF stamp = None
             THEN [yielded |-> <<>>, raised |-> <<"ValueError">>]
             ELSE LET token_expiration_timestamp == stamp[1]
                      token_expiration_timespan ==
                          token_expiration_timestamp - clock
                      name == "ms_intune_apple_ade_tokens_remaining_validity"
                  IN  [yielded |->
                         (IF ade_token_remaining(token_expiration_timespan)
                          THEN check_levels(token_expiration_timespan, levels,
                                            <<name>>, "Remaining",
                                            RenderTimespan)
                          ELSE check_levels(token_expiration_timespan, levels,
                                            None, "Expired", RenderAgo)
                               \o <<Metric(name, 0, OptLevels(levels[2]))>>)
                         \o << Result(OK,
                                      [expiration |->
                                           token_expiration_timestamp],
                                      token) >>,
                       raised |-> None]

---------------------------------------------------------------------------
(* ms_intune_apple_vpp_tokens *)

AppleVppToken(appleid, expiration, id, name, state) ==
    [token_appleid |-> appleid, token_expiration |-> expiration,
     token_id |-> id, token_name |-> name, token_state |-> state]

AppleVppTokenFields ==
    {"token_appleid", "token_expiration", "token_id", "token_name",
     "token_state"}

\* item["token_name"] and item['token_id'] raise KeyError for a missing key,
\* AppleVppToken(**item) raises TypeError unless the keys are the fields
RECURSIVE parse_ms_intune_apple_vpp_tokens_from(_, _, _, _)
parse_ms_intune_apple_vpp_tokens_from(doc, i, parsed, token_names) ==
    IF i > Len(doc) THEN Returned(parsed)
    ELSE LET item == doc[i]
         IN  IF "token_name" \notin DOMAIN item
             THEN parse_raises("KeyError", parsed)
             ELSE LET token_name == item.token_name
                      known == token_name \in token_names
                  IN  IF known /\ "token_id" \notin DOMAIN item
                      THEN parse_raises("KeyError", parsed)
                      ELSE IF DOMAIN item # AppleVppTokenFields
                      THEN parse_raises("TypeError", parsed)
                      ELSE parse_ms_intune_apple_vpp_tokens_from(
                               doc, i + 1,
                               ((IF known
                                 THEN token_name \o <<" ">>
                                          \o Last4(item.token_id)
                                 ELSE token_name) :>
                                   AppleVppToken(item.token_appleid,
                                       item.token_expiration,
                                       item.token_id, item.token_name,
                                       item.token_state))
                               @@ parsed,
                               IF known THEN token_names
                               ELSE token_names \cup {token_name})

parse_ms_intune_apple_vpp_tokens(string_table) ==
    IF ~ string_table.json THEN parse_raises("JSONDecodeError", <<>>)
    ELSE parse_ms_intune_apple_vpp_tokens_from(string_table.doc, 1, <<>>, token_names_set)

discover_ms_intune_apple_vpp_tokens(sec) ==
    ServiceBag([group \in DOMAIN sec |-> Service(group)])

VppDefaultParams == [token_expiration |-> ExpiryDefaultLevels]

\* params.get("token_expiration")
vpp_params_levels_none(params) == <<"no_levels", None>>

vpp_params_levels_token_expiration(params) == params.token_expiration

\* token_expiration_timespan > 0
vpp_token_remaining(timespan) == timespan > 0

\* token.token_state != "valid"
vpp_token_state_listed_bad(token) == token.token_state = "invalid"

vpp_token_state_bad(token) == token.token_state # "valid"

check_ms_intune_apple_vpp_tokens(item, params, sec, clock) ==
    IF item \notin DOMAIN sec
    THEN [yielded |-> <<>>, raised |-> None]
    ELSE LET token  == sec[item]
             levels == vpp_params_levels_token_expiration(params)
             stamp  == FromIsoTimestamp(token.token_expiration)
         IN  IF stamp = None
             THEN [yielded |-> <<>>, raised |-> <<"ValueError">>]
             ELSE LET token_expiration_timestamp == stamp[1]
                      token_expiration_timespan ==
                          token_expiration_timestamp - clock
                      name == "ms_intune_apple_vpp_tokens_remaining_validity"
                      result_summary ==
                          [expiration |-> token_expiration_timestamp,
                           state |-> token.token_state]
                  IN  [yielded |->
                         (IF vpp_token_remaining(token_expiration_timespan)
                          THEN check_levels(token_expiration_timespan, levels,
                                            <<name>>, "Remaining",
                                            RenderTimespan)
                          ELSE check_levels(token_expiration_timespan, levels,
                                            None, "Expired", RenderAgo)
                               \o <<Metric(name, 0, OptLevels(levels[2]))>>)
                         \o (IF vpp_token_state_bad(token)
                             THEN <<Result(CRIT, result_summary, token)>>
                             ELSE <<Result(OK, result_summary, token)>>),
                       raised |-> None]

---------------------------------------------------------------------------
(* ms_intune_apple_mdm_push_cert *)

ApplePushCert(appleid, expiration) ==
    [cert_appleid |-> appleid, cert_expiration |-> expiration]

ApplePushCertFields == {"cert_appleid", "cert_expiration"}

\* the document is a single object; ApplePushCert(**parsed) raises TypeError
\* unless the keys are the fields
parse_ms_intune_apple_mdm_push_cert(string_table) ==
    IF ~ string_table.json THEN parse_raises("JSONDecodeError", None)
    ELSE LET parsed == string_table.doc
         IN  IF DOMAIN parsed # ApplePushCertFields
             THEN parse_raises("TypeError", None)
             ELSE Returned(ApplePushCert(parsed.cert_appleid,
                                         parsed.cert_expiration))

\* yield Service()
discover_ms_intune_apple_mdm_push_cert(sec) == ServiceBag(<<Service(None)>>)

PushDefaultParams == [cert_expiration |-> ExpiryDefaultLevels]

\* params.get("cert_expiration")
push_params_levels_default(params) == ExpiryDefaultLevels

push_params_levels_cert_expiration(params) == params.cert_expiration

\* cert_expiration_timespan > 0
push_cert_remaining(timespan) == timespan > 0

check_ms_intune_apple_mdm_push_cert(params, sec, clock) ==
    LET cert   == sec
        levels == push_params_levels_cert_expiration(params)
        stamp  == FromIsoTimestamp(cert.cert_expiration)
    IN  IF stamp = None
        THEN [yielded |-> <<>>, raised |-> <<"ValueError">>]
        ELSE LET cert_expiration_timestamp == stamp[1]
                 cert_expiration_timespan == cert_expiration_timestamp - clock
                 name == "ms_intune_apple_mdm_push_cert_remaining_validity"
             IN  [yielded |->
                    (IF push_cert_remaining(cert_expiration_timespan)
                     THEN check_levels(cert_expiration_timespan, levels,
                                       <<name>>, "Remaining",
                                       RenderTimespan)
                     ELSE check_levels(cert_expiration_timespan, levels,
                                       None, "Expired", RenderAgo)
                          \o <<Metric(name, 0, OptLevels(levels[2]))>>)
                    \o << Result(OK,
                                 [expiration |-> cert_expiration_timestamp],
                                 cert) >>,
                  raised |-> None]

---------------------------------------------------------------------------
(* ms_intune_cert_connectors *)

CertConnector(last, id, name, state, version) ==
    [connector_connection_last |-> last, connector_id |-> id,
     connector_name |-> name, connector_state |-> state,
     connector_version |-> version]

CertConnectorFields ==
    {"connector_connection_last", "connector_id", "connector_name",
     "connector_state", "connector_version"}

\* item["connector_name"] and item['connector_id'] raise KeyError for a missing key,
\* CertConnector(**item) raises TypeError unless the keys are the fields
RECURSIVE parse_ms_intune_cert_connectors_from(_, _, _, _)
parse_ms_intune_cert_connectors_from(doc, i, parsed, connector_names) ==
    IF i > Len(doc) THEN Returned(parsed)
    ELSE LET item == doc[i]
         IN  IF "connector_name" \notin DOMAIN item
             THEN parse_raises("KeyError", parsed)
             ELSE LET connector_name == item.connector_name
                      known == connector_name \in connector_names
                  IN  IF known /\ "connector_id" \notin DOMAIN item
                      THEN parse_raises("KeyError", parsed)
                      ELSE IF DOMAIN item # CertConnectorFields
                      THEN parse_raises("TypeError", parsed)
                      ELSE parse_ms_intune_cert_connectors_from(
                               doc, i + 1,
                               ((IF known
                                 THEN connector_name \o <<" ">>
                                          \o Last4(item.connector_id)
                                 ELSE connector_name) :>
                                   CertConnector(item.connector_connection_last,
                                       item.connector_id,
                                       item.connector_name,
                                       item.connector_state,
                                       item.connector_version))
                               @@ parsed,
                               IF known THEN connector_names
                               ELSE connector_names \cup {connector_name})

parse_ms_intune_cert_connectors(string_table) ==
    IF ~ string_table.json THEN parse_raises("JSONDecodeError", <<>>)
    ELSE parse_ms_intune_cert_connectors_from(string_table.doc, 1, <<>>, {})

discover_ms_intune_cert_connectors(sec) ==
    ServiceBag([group \in DOMAIN sec |-> Service(group)])

check_ms_intune_cert_connectors(item, sec) ==
    IF item \notin DOMAIN sec
    THEN [yielded |-> <<>>, raised |-> None]
    ELSE LET connector == sec[item]
             stamp == FromIsoTimestamp(connector.connector_connection_last)
         IN  IF stamp = None
             THEN [yielded |-> <<>>, raised |-> <<"ValueError">>]
             ELSE LET result_summary ==
                          [state |-> connector.connector_state,
                           version |-> connector.connector_version]
                      result_details ==
                          [connector |-> connector, last_connected |-> stamp[1]]
                  IN  [yielded |->
                         IF connector.connector_state # "active"
                         THEN <<Result(CRIT, result_summary, result_details)>>
                         ELSE <<Result(OK, result_summary, result_details)>>,
                       raised |-> None]

---------------------------------------------------------------------------
(* Inputs of the expiry and connector checks *)

TokenName == <<"A">>
TokenId == <<"i", "d", "-", "0", "0", "0", "1">>
AppleId == <<"a", "@", "b">>

ExpEpochs ==
    (0..MaxEpoch)
    \cup {l + d : l \in {ExpiryDefaultLevels[2][1], ExpiryDefaultLevels[2][2]},
                  d \in {0, 1, 2}}

TimestampTexts ==
    {[iso |-> TRUE, epoch |-> e] : e \in ExpEpochs}
    \cup {[iso |-> FALSE, epoch |-> 0]}

ExpiryLevels ==
    {ExpiryDefaultLevels, <<"no_levels", None>>}
    \cup {<<"fixed", l>> : l \in {<<2, 1>>, <<1, 2>>, <<0, 0>>}}

AdePayloads ==
    {StringTable(<<>>), NotJson(<<>>)} \cup
    {StringTable(
         <<AdeToken(AppleId, t, TokenId, TokenName, <<"d", "e", "p">>)>>) :
        t \in TimestampTexts}

AdeParams == {[token_expiration |-> l] : l \in ExpiryLevels}

VppStates == {"valid", "invalid", "Valid", "expired", ""}

VppPayloads ==
    {StringTable(<<>>), NotJson(<<>>)} \cup
    {StringTable(<<AppleVppToken(AppleId, t, TokenId, TokenName, s)>>) :
        t \in TimestampTexts, s \in VppStates}

VppParams == {[token_expiration |-> l] : l \in ExpiryLevels}

\* the form of the push certificate sets no lower bound on the levels
PushPayloads ==
    {StringTable([cert_appleid |-> AppleId, cert_expiration |-> t]) :
        t \in TimestampTexts}
    \cup {StringTable([cert_appleid |-> AppleId]),
          NotJson([cert_appleid |-> AppleId])}

PushParams ==
    {[cert_expiration |-> l] :
        l \in ExpiryLevels \cup {<<"fixed", <<1, -1>>>>}}

ConnectorStates == {"active", "inactive", "Active", "unknown", ""}

ConnectorPayloads ==
    {StringTable(<<>>), NotJson(<<>>)} \cup
    {StringTable(<<CertConnector(t, TokenId, TokenName, s, <<"6", ".", "1">>)>>) :
        t \in TimestampTexts, s \in ConnectorStates}

TokenItems == {TokenName, <<"B">>}

---------------------------------------------------------------------------
(* Snapshots of several records, for the parse and discovery functions *)

\* a JSON object that lacks a key
Without(item, key) == [k \in DOMAIN item \ {key} |-> item[k]]

\* the documents of at most MaxRecords objects
Docs(objects) == UNION {[1..n -> objects] : n \in 0..MaxRecords}

SnapshotNames == {TokenName, TokenName \o <<" ", "0", "0", "0", "1">>}

SnapshotIds ==
    {<<"a", "0", "0", "0", "1">>, <<"b", "0", "0", "0", "1">>,
     <<"a", "0", "0", "0", "2">>}

SnapshotTime == [iso |-> TRUE, epoch |-> MaxEpoch]

LicSnapshots ==
    LET apps == {IntuneApp(AppType, n, AppPublisher, t, 1, TRUE) :
                    n \in {AppName, <<"Y">>}, t \in {1, 2}}
        short == Without(IntuneApp(AppType, AppName, AppPublisher, 1, 1, TRUE),
                         "app_assigned")
    IN  {StringTable(d) : d \in Docs(apps \cup {short})}
        \cup {NotJson(<<>>)}

AdeSnapshots ==
    LET tokens == {AdeToken(AppleId, SnapshotTime, i, n, <<"d", "e", "p">>) :
                      i \in SnapshotIds, n \in SnapshotNames}
        short == AdeToken(AppleId, SnapshotTime, TokenId, TokenName,
                          <<"d", "e", "p">>)
    IN  {StringTable(d) :
            d \in Docs(tokens \cup {Without(short, "token_type"),
                                    Without(short, "token_name")})}
        \cup {NotJson(<<>>)}

VppSnapshots ==
    LET tokens == {AppleVppToken(AppleId, SnapshotTime, i, n, "valid") :
                      i \in SnapshotIds, n \in SnapshotNames}
        short == AppleVppToken(AppleId, SnapshotTime, TokenId, TokenName,
                               "valid")
    IN  {StringTable(d) :
            d \in Docs(tokens \cup {Without(short, "token_state"),
                                    Without(short, "token_name")})}
        \cup {NotJson(<<>>)}

ConnectorSnapshots ==
    LET connectors ==
            {CertConnector(SnapshotTime, i, n, "active", <<"6", ".", "1">>) :
                i \in SnapshotIds, n \in SnapshotNames}
        short == CertConnector(SnapshotTime, TokenId, TokenName, "active",
                               <<"6", ".", "1">>)
    IN  {StringTable(d) :
            d \in Docs(connectors \cup {Without(short, "connector_version"),
                                        Without(short, "connector_name")})}
        \cup {NotJson(<<>>)}

---------------------------------------------------------------------------
(* The cycle *)

Init ==
    /\ now = 0
    /\ pc = "idle"
    /\ plugin = "none"
    /\ payload = None
    /\ section = None
    /\ seen = {}
    /\ discovered = <<>>
    /\ call = None
    /\ yielded = <<>>
    /\ raised = None

Tick ==
    /\ now < MaxNow
    /\ now' = now + 1
    /\ UNCHANGED <<pc, plugin, payload, section, seen, discovered, call,
                   yielded, raised>>

\* the framework runs the parse function of the plugin on a string table
Parse(name, string_table, r) ==
    /\ plugin' = name
    /\ payload' = string_table
    /\ section' = r.parsed
    /\ raised' = r.raised
    /\ pc' = IF r.raised = None THEN "parsed" ELSE "failed"
    /\ UNCHANGED <<now, seen, discovered, call, yielded>>

\* the framework runs the discovery function of the plugin on the section
Discover(name, services) ==
    /\ plugin = name
    /\ discovered' = services
    /\ pc' = "discovered"
    /\ UNCHANGED <<now, plugin, payload, section, seen, call, yielded, raised>>

\* the framework calls the check function, which reads the clock
Call(name, item, params) ==
    /\ plugin = name
    /\ call' = [item |-> item, params |-> params, now |-> now]
    /\ pc' = "checking"
    /\ UNCHANGED <<now, plugin, payload, section, seen, discovered, yielded,
                   raised>>

\* the framework collects what the check function yields or raises
Yield(name, r) ==
    /\ plugin = name
    /\ yielded' = r.yielded
    /\ raised' = r.raised
    /\ pc' = "done"
    /\ UNCHANGED <<now, plugin, payload, section, seen, discovered>>

ParseAppLicenses ==
    /\ pc = "idle"
    /\ \E string_table \in LicPayloads :
           Parse("app_licenses", string_table,
                 parse_ms_intune_app_licenses(string_table))

CheckAppLicenses ==
    /\ pc = "parsed"
    /\ \E item \in LicItems, params \in LicParams :
           /\ call' = [item |-> item, params |-> params, now |-> now]
           /\ Yield("app_licenses",
                    check_ms_intune_app_licenses(item, params, section))

ParseAdeTokens ==
    /\ pc = "idle"
    /\ \E string_table \in AdePayloads :
           Parse("apple_ade_tokens", string_table,
                 parse_ms_intune_apple_ade_tokens(string_table))

CallAdeTokens ==
    /\ pc = "parsed"
    /\ \E item \in TokenItems, params \in AdeParams :
           Call("apple_ade_tokens", item, params)

CheckAdeTokens ==
    /\ pc = "checking"
    /\ Yield("apple_ade_tokens",
             check_ms_intune_apple_ade_tokens(
                 call.item, call.params, section, datetime_now))
    /\ UNCHANGED call

ParseVppTokens ==
    /\ pc = "idle"
    /\ \E string_table \in VppPayloads :
           Parse("apple_vpp_tokens", string_table,
                 parse_ms_intune_apple_vpp_tokens(string_table))

CallVppTokens ==
    /\ pc = "parsed"
    /\ \E item \in TokenItems, params \in VppParams :
           Call("apple_vpp_tokens", item, params)

CheckVppTokens ==
    /\ pc = "checking"
    /\ Yield("apple_vpp_tokens",
             check_ms_intune_apple_vpp_tokens(
                 call.item, call.params, section, datetime_now))
    /\ UNCHANGED call

ParsePushCert ==
    /\ pc = "idle"
    /\ \E string_table \in PushPayloads :
           Parse("apple_mdm_push_cert", string_table,
                 parse_ms_intune_apple_mdm_push_cert(string_table))

\* the plugin has no item
CallPushCert ==
    /\ pc = "parsed"
    /\ \E params \in PushParams : Call("apple_mdm_push_cert", None, params)

CheckPushCert ==
    /\ pc = "checking"
    /\ Yield("apple_mdm_push_cert",
             check_ms_intune_apple_mdm_push_cert(
                 call.params, section, datetime_now))
    /\ UNCHANGED call

ParseCertConnectors ==
    /\ pc = "idle"
    /\ \E string_table \in ConnectorPayloads :
           Parse("cert_connectors", string_table,
                 parse_ms_intune_cert_connectors(string_table))

\* the plugin has no parameters
CheckCertConnectors ==
    /\ pc = "parsed"
    /\ \E item \in TokenItems :
           /\ call' = [item |-> item, params |-> None, now |-> now]
           /\ Yield("cert_connectors",
                    check_ms_intune_cert_connectors(item, section))

\* the names of the records of the section
SectionNames ==
    IF pc = "failed" THEN {}
    ELSE IF plugin = "cert_connectors"
    THEN {section[k].connector_name : k \in DOMAIN section}
    ELSE IF plugin \in {"apple_ade_tokens", "apple_vpp_tokens"}
    THEN {section[k].token_name : k \in DOMAIN section}
    ELSE {}

\* the section is discarded after the evaluation, and after a failed parse
Discard ==
    /\ pc \in {"failed", "discovered", "done"}
    /\ pc' = "idle"
    /\ plugin' = "none"
    /\ payload' = None
    /\ section' = None
    /\ seen' = seen \cup SectionNames
    /\ discovered' = <<>>
    /\ call' = None
    /\ yielded' = <<>>
    /\ raised' = None
    /\ UNCHANGED now

Next ==
    \/ Tick
    \/ ParseAppLicenses
    \/ CheckAppLicenses
    \/ ParseAdeTokens
    \/ CallAdeTokens
    \/ CheckAdeTokens
    \/ ParseVppTokens
    \/ CallVppTokens
    \/ CheckVppTokens
    \/ ParsePushCert
    \/ CallPushCert
    \/ CheckPushCert
    \/ ParseCertConnectors
    \/ CheckCertConnectors
    \/ Discard

Spec == Init /\ [][Next]_vars

---------------------------------------------------------------------------
(* Parse and discovery on snapshots of several records *)

ParseAppLicensesSnapshot ==
    /\ pc = "idle"
    /\ \E string_table \in LicSnapshots :
           Parse("app_licenses", string_table,
                 parse_ms_intune_app_licenses(string_table))

DiscoverAppLicenses ==
    /\ pc = "parsed"
    /\ Discover("app_licenses",
                discover_ms_intune_app_licenses(section))

ParseAdeTokensSnapshot ==
    /\ pc = "idle"
    /\ \E string_table \in AdeSnapshots :
           Parse("apple_ade_tokens", string_table,
                 parse_ms_intune_apple_ade_tokens(string_table))

DiscoverAdeTokens ==
    /\ pc = "parsed"
    /\ Discover("apple_ade_tokens",
                discover_ms_intune_apple_ade_tokens(section))

ParseVppTokensSnapshot ==
    /\ pc = "idle"
    /\ \E string_table \in VppSnapshots :
           Parse("apple_vpp_tokens", string_table,
                 parse_ms_intune_apple_vpp_tokens(string_table))

DiscoverVppTokens ==
    /\ pc = "parsed"
    /\ Discover("apple_vpp_tokens",
                discover_ms_intune_apple_vpp_tokens(section))

DiscoverPushCert ==
    /\ pc = "parsed"
    /\ Discover("apple_mdm_push_cert",
                discover_ms_intune_apple_mdm_push_cert(section))

ParseCertConnectorsSnapshot ==
    /\ pc = "idle"
    /\ \E string_table \in ConnectorSnapshots :
           Parse("cert_connectors", string_table,
                 parse_ms_intune_cert_connectors(string_table))

DiscoverCertConnectors ==
    /\ pc = "parsed"
    /\ Discover("cert_connectors",
                discover_ms_intune_cert_connectors(section))

ParserNext ==
    \/ ParseAppLicensesSnapshot
    \/ DiscoverAppLicenses
    \/ ParseAdeTokensSnapshot
    \/ DiscoverAdeTokens
    \/ ParseVppTokensSnapshot
    \/ DiscoverVppTokens
    \/ ParsePushCert
    \/ DiscoverPushCert
    \/ ParseCertConnectorsSnapshot
    \/ DiscoverCertConnectors
    \/ Discard

ParserSpec == Init /\ [][ParserNext]_vars

---------------------------------------------------------------------------
(* What the framework reports for a finished check *)

Checked(p) == pc = "done" /\ plugin = p

Results == SelectSeq(yielded, LAMBDA y : y.kind = "Result")

MetricsNamed(name) ==
    SelectSeq(yielded, LAMBDA y : y.kind = "Metric" /\ y.name = name)

\* the service state: the worst state of the yielded results; a raised
\* exception is reported as a crash, an empty yield as no state at all
Status ==
    IF raised # None THEN "CRASH"
    ELSE IF Results = <<>> THEN "NONE"
    ELSE IF \E i \in DOMAIN Results : Results[i].state = CRIT THEN CRIT
    ELSE IF \E i \in DOMAIN Results : Results[i].state = WARN THEN WARN
    ELSE OK

\* the license record under check and the configuration of the call
LicChecked == Checked("app_licenses") /\ call.item \in DOMAIN section
LicTotal == section[call.item].app_license_total
LicConsumed == section[call.item].app_license_consumed
LicAvailable == LicTotal - LicConsumed
LicMode == call.params.lic_unit_available_lower[1]
LicKind == call.params.lic_unit_available_lower[2][1]
LicWarn == call.params.lic_unit_available_lower[2][2][1]
LicCrit == call.params.lic_unit_available_lower[2][2][2]
LicFloor == call.params.lic_total_min

LicPctChecked ==
    /\ LicChecked
    /\ LicMode = "lic_unit_available_lower_pct"
    /\ LicKind = "fixed"
    /\ LicTotal > 0
    /\ LicTotal >= LicFloor

---------------------------------------------------------------------------
(* C1 *)

---------------------------------------------------------------------------
(* C2 *)

\* C2: in absolute mode with fixed levels and total >= lic_total_min, the
\* status is CRIT iff available < critical, WARN iff not CRIT and
\* available < warning, and OK otherwise.
C2_AbsoluteLevels ==
    (/\ LicChecked
     /\ LicMode = "lic_unit_available_lower_abs"
     /\ LicKind = "fixed"
     /\ LicTotal >= LicFloor) =>
        /\ Status = CRIT <=> LicAvailable < LicCrit
        /\ Status = WARN <=> (~(LicAvailable < LicCrit)
                                /\ LicAvailable < LicWarn)
        /\ Status = OK <=> (~(LicAvailable < LicCrit)
                              /\ ~(LicAvailable < LicWarn))

---------------------------------------------------------------------------
(* C3 *)

\* C3: whenever the total is below lic_total_min, the status is OK for every
\* consumed value and every level pair, and no levels are compared (none is
\* named in the summary or attached to a metric).
C3_BelowFloor ==
    (LicChecked /\ LicTotal < LicFloor) =>
        /\ Status = OK
        /\ Results[1].summary.level = None
        /\ \A i \in DOMAIN yielded :
               yielded[i].kind = "Metric" => yielded[i].levels = <<{}, {}>>

---------------------------------------------------------------------------
(* C4 *)

\* C4: a record whose total is zero never makes the check fail: the check
\* completes and yields a result.
C4_ZeroTotal ==
    (LicChecked /\ LicTotal = 0) =>
        /\ raised = None
        /\ Len(Results) = 1

---------------------------------------------------------------------------
(* C5 *)

\* C5: with the default parameters, total 100 and consumed 96 yield
\* available 4, consumed percentage 96.0 and CRIT; for every non-empty total
\* the status is CRIT exactly when less than 5% is available and WARN exactly
\* when at least 5% but less than 10% is available.
C5_Defaults ==
    (LicChecked /\ call.params = LicDefaultParams /\ LicTotal > 0) =>
        /\ raised = None
        /\ Status = CRIT <=> LicAvailable * 100 < 5 * LicTotal
        /\ Status = WARN <=> (5 * LicTotal <= LicAvailable * 100
                                /\ LicAvailable * 100 < 10 * LicTotal)
        /\ (LicTotal = 100 /\ LicConsumed = 96) =>
               /\ Results[1].state = CRIT
               /\ Results[1].summary.available = 4
               /\ Results[1].summary.consumed_pct = 9600
               /\ MetricsNamed("ms_intune_app_licenses_available")[1].value = 4
               /\ MetricsNamed("ms_intune_app_licenses_consumed_pct")[1].value
                      = 9600

\* the example of the specification: 96 of 100 consumed, defaults, CRIT
C5_Witness ==
    /\ LicChecked
    /\ call.params = LicDefaultParams
    /\ LicTotal = 100
    /\ LicConsumed = 96
    /\ Status = CRIT

---------------------------------------------------------------------------
(* The expiry checks *)

ExpiryPlugins ==
    {"apple_ade_tokens", "apple_vpp_tokens", "apple_mdm_push_cert"}

ExpiryMetricName ==
    IF plugin = "apple_ade_tokens"
    THEN "ms_intune_apple_ade_tokens_remaining_validity"
    ELSE IF plugin = "apple_vpp_tokens"
    THEN "ms_intune_apple_vpp_tokens_remaining_validity"
    ELSE "ms_intune_apple_mdm_push_cert_remaining_validity"

\* an expiry check has run on an entity of the section
ExpiryChecked ==
    /\ pc = "done"
    /\ plugin \in ExpiryPlugins
    /\ plugin # "apple_mdm_push_cert" => call.item \in DOMAIN section

ExpiryText ==
    IF plugin = "apple_mdm_push_cert" THEN section.cert_expiration
    ELSE section[call.item].token_expiration

ExpiryLevelsOf ==
    IF plugin = "apple_mdm_push_cert" THEN call.params.cert_expiration
    ELSE call.params.token_expiration

\* expiration timestamp - current time, for an expiration the check can read
ExpiryTimed == ExpiryChecked /\ ExpiryText.iso
Remaining == ExpiryText.epoch - call.now

---------------------------------------------------------------------------
(* C6 *)

\* C6: for the ADE token, VPP token and push certificate checks,
\* remaining > 0 yields the "Remaining" framing and a remaining_validity
\* metric equal to remaining; remaining <= 0 yields the "Expired ... ago"
\* framing and a remaining_validity metric of 0; the metric is never negative.
C6_ExpiryFraming ==
    ExpiryTimed =>
        /\ raised = None
        /\ Len(MetricsNamed(ExpiryMetricName)) = 1
        /\ MetricsNamed(ExpiryMetricName)[1].value >= 0
        /\ Remaining > 0 =>
               /\ Results[1].summary.label = "Remaining"
               /\ Results[1].summary.value = [span |-> Remaining, ago |-> FALSE]
               /\ MetricsNamed(ExpiryMetricName)[1].value = Remaining
        /\ Remaining <= 0 =>
               /\ Results[1].summary.label = "Expired"
               /\ Results[1].summary.value = [span |-> -Remaining, ago |-> TRUE]
               /\ MetricsNamed(ExpiryMetricName)[1].value = 0

\* an ADE token that expires exactly now: "Expired" framing, metric 0
C6_Witness ==
    /\ ExpiryTimed
    /\ plugin = "apple_ade_tokens"
    /\ Remaining = 0
    /\ Results[1].summary.label = "Expired"
    /\ MetricsNamed(ExpiryMetricName)[1].value = 0

---------------------------------------------------------------------------
(* C7 *)

\* C7: for the ADE token and push certificate checks with fixed lower levels,
\* the status is CRIT iff remaining < critical, WARN iff
\* critical <= remaining < warning, and OK otherwise; the last result
\* ("Expiration time") is always OK; the default levels are 14 days and
\* 5 days, 1209600 s and 432000 s.
C7_ExpiryLevels ==
    /\ AdeDefaultParams.token_expiration
           = <<"fixed", <<14 * 86400, 5 * 86400>>>>
    /\ PushDefaultParams.cert_expiration = <<"fixed", <<1209600, 432000>>>>
    /\ (/\ ExpiryTimed
        /\ plugin \in {"apple_ade_tokens", "apple_mdm_push_cert"}
        /\ ExpiryLevelsOf[1] = "fixed") =>
           LET warning  == ExpiryLevelsOf[2][1]
               critical == ExpiryLevelsOf[2][2]
           IN  /\ Status = CRIT <=> Remaining < critical
               /\ Status = WARN <=> (critical <= Remaining
                                       /\ Remaining < warning)
               /\ Status = OK <=> ~(Remaining < critical
                                      \/ Remaining < warning)
               /\ Results[Len(Results)].state = OK
               /\ Len(Results) = 2

\* the push certificate with the default levels and exactly 5 days left: WARN
C7_Witness ==
    /\ ExpiryTimed
    /\ plugin = "apple_mdm_push_cert"
    /\ call.params = PushDefaultParams
    /\ Remaining = 432000
    /\ Status = WARN

---------------------------------------------------------------------------
(* C8 *)

\* C8: with "No levels" the threshold is ignored: the license check is OK
\* for every (total, consumed) with total > 0 in either mode, and the ADE
\* token and push certificate checks are OK for every remaining time,
\* expired ones included, and complete without error.
C8_NoLevels ==
    /\ (LicChecked /\ LicKind = "no_levels" /\ LicTotal > 0) =>
           raised = None /\ Status = OK
    /\ (/\ ExpiryTimed
        /\ plugin \in {"apple_ade_tokens", "apple_mdm_push_cert"}
        /\ ExpiryLevelsOf = <<"no_levels", None>>) =>
           raised = None /\ Status = OK

\* an ADE token that has expired, checked with no levels: OK
C8_Witness ==
    /\ ExpiryTimed
    /\ plugin = "apple_ade_tokens"
    /\ ExpiryLevelsOf = <<"no_levels", None>>
    /\ Remaining < 0
    /\ Status = OK

---------------------------------------------------------------------------
(* C9 *)

ConnectorChecked == Checked("cert_connectors") /\ call.item \in DOMAIN section

\* C9: a connector whose state is any text other than "active" yields CRIT
\* and never a failure, whatever the other fields of the record hold
\* (connector_connection_last included); a connector with state "active"
\* yields OK.
C9_ConnectorState ==
    ConnectorChecked =>
        /\ raised = None
        /\ section[call.item].connector_state # "active" => Status = CRIT
        /\ section[call.item].connector_state = "active" => Status = OK

---------------------------------------------------------------------------
(* C10 *)

\* C10: a VPP token whose state is any text other than "valid" yields the
\* status CRIT for every remaining time, positive or expired, and every
\* configuration of the expiration levels, fixed or none.
C10_VppState ==
    (/\ ExpiryTimed
     /\ plugin = "apple_vpp_tokens"
     /\ section[call.item].token_state # "valid") =>
        raised = None /\ Status = CRIT

\* a token in state "Valid" with time left and no levels: CRIT
C10_Witness ==
    /\ ExpiryTimed
    /\ plugin = "apple_vpp_tokens"
    /\ section[call.item].token_state = "Valid"
    /\ ExpiryLevelsOf = <<"no_levels", None>>
    /\ Remaining > 0
    /\ Status = CRIT

---------------------------------------------------------------------------
(* C11 *)

VppChecked ==
    /\ ExpiryTimed
    /\ plugin = "apple_vpp_tokens"
    /\ raised = None

---------------------------------------------------------------------------
(* C12 *)

ItemPlugins ==
    {"app_licenses", "apple_ade_tokens", "apple_vpp_tokens", "cert_connectors"}

\* C12: for every item based check, an item that is no key of the section
\* yields nothing and raises nothing; an item that is a key yields at least
\* one Result.
C12_VanishedItem ==
    (pc = "done" /\ plugin \in ItemPlugins) =>
        /\ call.item \notin DOMAIN section =>
               yielded = <<>> /\ raised = None
        /\ call.item \in DOMAIN section =>
               raised = None /\ Len(Results) >= 1

---------------------------------------------------------------------------
(* What the parse functions make of a snapshot *)

NamedPlugins == {"apple_ade_tokens", "apple_vpp_tokens", "cert_connectors"}

\* the parse function returned a section
SectionReturned == pc \in {"parsed", "discovered", "checking", "done"}

RecordFields ==
    IF plugin = "app_licenses" THEN IntuneAppFields
    ELSE IF plugin = "apple_ade_tokens" THEN AdeTokenFields
    ELSE IF plugin = "apple_vpp_tokens" THEN AppleVppTokenFields
    ELSE IF plugin = "cert_connectors" THEN CertConnectorFields
    ELSE ApplePushCertFields

\* the text is JSON and every object of it has exactly the fields of the
\* typed record
PayloadTyped ==
    /\ payload.json
    /\ IF plugin = "apple_mdm_push_cert"
       THEN DOMAIN payload.doc = RecordFields
       ELSE \A i \in DOMAIN payload.doc : DOMAIN payload.doc[i] = RecordFields

RecordName(record) ==
    IF plugin = "cert_connectors" THEN record.connector_name
    ELSE record.token_name

RecordId(record) ==
    IF plugin = "cert_connectors" THEN record.connector_id
    ELSE record.token_id

\* the last 4 characters of an identifier of at least 4 characters
Suffix4(id) == SubSeq(id, Len(id) - 3, Len(id))

\* the key of the i-th record of a document: a license by name and type; a
\* token or connector by its name, unless an earlier record of the same
\* document has that name
DisplayName(doc, i) ==
    IF plugin = "app_licenses"
    THEN doc[i].app_name \o <<" ", "-", " ">> \o doc[i].app_type
    ELSE IF \E h \in 1..(i - 1) : RecordName(doc[h]) = RecordName(doc[i])
    THEN RecordName(doc[i]) \o <<" ">> \o Suffix4(RecordId(doc[i]))
    ELSE RecordName(doc[i])

\* the section of the payload, from nothing but the payload: every record
\* under its key, the last one where several have the same key
FreshSection ==
    IF plugin = "apple_mdm_push_cert" THEN payload.doc
    ELSE LET doc == payload.doc
         IN  [k \in {DisplayName(doc, i) : i \in DOMAIN doc} |->
                 doc[CHOOSE i \in DOMAIN doc :
                         /\ DisplayName(doc, i) = k
                         /\ \A j \in DOMAIN doc :
                                j > i => DisplayName(doc, j) # k]]

---------------------------------------------------------------------------
(* C13 *)

TwoOfOneName ==
    /\ SectionReturned
    /\ plugin \in NamedPlugins
    /\ Len(payload.doc) = 2
    /\ RecordName(payload.doc[1]) = RecordName(payload.doc[2])

\* C13: the ADE token, VPP token and connector parsers turn a snapshot of two
\* records of the same name into two distinct keys: the first record under
\* the raw name, the second under the name, a blank and the last 4 characters
\* of its identifier.
C13_SecondSuffixed ==
    TwoOfOneName =>
        LET first  == RecordName(payload.doc[1])
            second == first \o <<" ">> \o Suffix4(RecordId(payload.doc[2]))
        IN  /\ DOMAIN section = {first, second}
            /\ Cardinality(DOMAIN section) = 2
            /\ section[first] = payload.doc[1]
            /\ section[second] = payload.doc[2]

\* two connectors named A, the second with identifier b0001: "A", "A 0001"
C13_Witness ==
    /\ TwoOfOneName
    /\ plugin = "cert_connectors"
    /\ payload.doc[2].connector_id = <<"b", "0", "0", "0", "1">>
    /\ DOMAIN section = {TokenName, TokenName \o <<" ", "0", "0", "0", "1">>}

---------------------------------------------------------------------------
(* C14 *)

DistinctIds ==
    \A i, j \in DOMAIN payload.doc :
        i # j => RecordId(payload.doc[i]) # RecordId(payload.doc[j])

\* C14: for every snapshot of the token and connector parsers whose records
\* have pairwise distinct identifiers, whatever their names, the section has
\* exactly one key per record: no record is overwritten or lost.
C14_OneKeyPerRecord ==
    (SectionReturned /\ plugin \in NamedPlugins /\ DistinctIds) =>
        Cardinality(DOMAIN section) = Len(payload.doc)

---------------------------------------------------------------------------
(* C15 *)

\* C15: each item based discovery function yields exactly one service per
\* key of the section, with the key as its item, none left out and none
\* twice; an empty snapshot yields no service and no error.
C15_OneServicePerKey ==
    (pc = "discovered" /\ plugin \in ItemPlugins) =>
        /\ raised = None
        /\ DOMAIN discovered = {[item |-> k] : k \in DOMAIN section}
        /\ \A service \in DOMAIN discovered : discovered[service] = 1
        /\ payload.doc = <<>> => DOMAIN discovered = {}

\* two VPP tokens named A: the services "A" and "A 0001"
C15_Witness ==
    /\ pc = "discovered"
    /\ plugin = "apple_vpp_tokens"
    /\ Cardinality(DOMAIN section) = 2
    /\ DOMAIN discovered =
           {[item |-> TokenName],
            [item |-> TokenName \o <<" ", "0", "0", "0", "1">>]}

---------------------------------------------------------------------------
(* C16 *)

\* C16: parsing is all or nothing: if the payload is no JSON, or one of its
\* records cannot be turned into the typed record, the parse function raises
\* and returns no mapping; a mapping is returned only for a payload all of
\* whose records are typed, and then it is the mapping of all its records,
\* never that of the records before the bad one.
C16_AllOrNothing ==
    pc # "idle" =>
        /\ ~ PayloadTyped =>
               pc = "failed" /\ raised # None /\ section = None
        /\ PayloadTyped =>
               pc # "failed" /\ section = FreshSection

\* a license snapshot whose second record lacks a field: TypeError, nothing
\* is returned although the first record was already in the mapping
C16_Witness ==
    /\ pc = "failed"
    /\ plugin = "app_licenses"
    /\ payload.json
    /\ Len(payload.doc) = 2
    /\ DOMAIN payload.doc[1] = IntuneAppFields
    /\ DOMAIN payload.doc[2] # IntuneAppFields
    /\ raised = <<"TypeError">>
    /\ section = None

---------------------------------------------------------------------------
(* C17 *)

LicYielded == LicChecked /\ raised = None

LicMetric(name) == MetricsNamed(name)[1].value

\* C17: for every (total, consumed) with total > 0 the check reports
\* available = total - consumed, the available and consumed metrics sum to
\* the total metric, and the consumed_pct metric is consumed / total * 100
\* rounded to 2 decimal places (the nearest hundredth).
C17_LicenseNumbers ==
    (LicChecked /\ LicTotal > 0) =>
        /\ raised = None
        /\ Results[1].summary.available = LicTotal - LicConsumed
        /\ LicMetric("ms_intune_app_licenses_available")
               = LicTotal - LicConsumed
        /\ LicMetric("ms_intune_app_licenses_available")
             + LicMetric("ms_intune_app_licenses_consumed")
               = LicMetric("ms_intune_app_licenses_total")
        /\ LicMetric("ms_intune_app_licenses_total") = LicTotal
        /\ LET v == LicMetric("ms_intune_app_licenses_consumed_pct")
               d == v * LicTotal - 10000 * LicConsumed
           IN  2 * (IF d < 0 THEN -d ELSE d) <= LicTotal

\* 2 of 3 consumed: 66.67 %, rounded up
C17_Witness ==
    /\ LicYielded
    /\ LicTotal = 3
    /\ LicConsumed = 2
    /\ LicMetric("ms_intune_app_licenses_consumed_pct") = 6667
    /\ LicMetric("ms_intune_app_licenses_available") = 1

---------------------------------------------------------------------------
(* C18 *)

\* what the check of the cycle gives on the section of the payload
FreshOutcome ==
    IF plugin = "app_licenses"
    THEN check_ms_intune_app_licenses(call.item, call.params, FreshSection)
    ELSE IF plugin = "apple_ade_tokens"
    THEN check_ms_intune_apple_ade_tokens(
             call.item, call.params, FreshSection, call.now)
    ELSE IF plugin = "apple_vpp_tokens"
    THEN check_ms_intune_apple_vpp_tokens(
             call.item, call.params, FreshSection, call.now)
    ELSE IF plugin = "apple_mdm_push_cert"
    THEN check_ms_intune_apple_mdm_push_cert(
             call.params, FreshSection, call.now)
    ELSE check_ms_intune_cert_connectors(call.item, FreshSection)

\* C18: no state persists between cycles: in every cycle of every sequence of
\* cycles, the section is a function of the cycle's payload alone (the set of
\* seen names starts empty, so a name of an earlier cycle causes no suffix),
\* and what the check yields or raises is a function of the payload, the
\* item, the parameters and the clock reading alone.
C18_NoStateAcrossCycles ==
    /\ SectionReturned => section = FreshSection
    /\ pc = "done" =>
           [yielded |-> yielded, raised |-> raised] = FreshOutcome

\* a token named A was parsed in an earlier cycle; in this cycle a token A is
\* keyed "A" again and its check reports on it
C18_Witness ==
    /\ Checked("apple_ade_tokens")
    /\ TokenName \in seen
    /\ call.item = TokenName
    /\ DOMAIN section = {TokenName}
    /\ Len(Results) >= 1

---------------------------------------------------------------------------
(* C19 *)

\* C19: each expiry evaluation uses one reading of the clock, the one taken
\* when the check was called, for the framing, the status and the metric,
\* even if the clock advances before the check yields: exactly one
\* remaining_validity metric is yielded; with remaining = expiration - reading
\* the framing is "Remaining" iff remaining > 0 iff the metric is positive
\* (and then equal to remaining), and "Expired" iff remaining <= 0 iff the
\* metric is 0.
C19_OneClockReading ==
    ExpiryTimed =>
        LET metrics == MetricsNamed(ExpiryMetricName)
            label   == Results[1].summary.label
        IN  /\ Len(metrics) = 1
            /\ label \in {"Remaining", "Expired"}
            /\ label = "Remaining" <=> Remaining > 0
            /\ label = "Remaining" <=> metrics[1].value > 0
            /\ label = "Expired" <=> metrics[1].value = 0
            /\ label = "Remaining" => metrics[1].value = Remaining
            /\ Results[1].summary.value.span =
                   (IF Remaining > 0 THEN Remaining ELSE -Remaining)

\* the clock advanced past the expiration between the call and the yield:
\* the framing and the metric are those of the reading
C19_Witness ==
    /\ ExpiryTimed
    /\ now > call.now
    /\ Remaining > 0
    /\ ExpiryText.epoch - now <= 0
    /\ Results[1].summary.label = "Remaining"
    /\ MetricsNamed(ExpiryMetricName)[1].value = Remaining

---------------------------------------------------------------------------
(* C20 *)

LicLevelsActive == LicTotal >= LicFloor /\ LicKind = "fixed"

LicSummaryValues ==
    /\ Len(Results) = 1
    /\ Results[1].summary.consumed = LicConsumed
    /\ Results[1].summary.total = LicTotal
    /\ Results[1].summary.available = LicTotal - LicConsumed
    /\ Results[1].summary.consumed_pct
           = LicMetric("ms_intune_app_licenses_consumed_pct")

\* C20, as stated: the summary of the license check names the consumed
\* percentage, consumed of total and available, and holds the text
\* "(warn/crit below ... available)" iff the status is WARN or CRIT.
\* (Fails for an OK status with levels configured.)
C20_AsStated ==
    LicYielded =>
        /\ LicSummaryValues
        /\ Results[1].summary.level # None <=> Status \in {WARN, CRIT}

\* C20, amended: the summary of the license check names the consumed
\* percentage, consumed of total and available, and holds the text
\* "(warn/crit below ... available)" iff levels are compared, that is iff
\* total >= lic_total_min and fixed levels are configured; so it holds the
\* text whenever the status is WARN or CRIT, and also for an OK status under
\* compared levels.
C20_SummaryLevels ==
    LicYielded =>
        /\ LicSummaryValues
        /\ Results[1].summary.level # None <=> LicLevelsActive
        /\ Status \in {WARN, CRIT} => Results[1].summary.level # None
        /\ LicLevelsActive =>
               Results[1].summary.level[2] = LicWarn
               /\ Results[1].summary.level[3] = LicCrit

\* levels are compared and nothing fired: OK, and the text is in the summary
C20_Witness ==
    /\ LicYielded
    /\ LicLevelsActive
    /\ Status = OK
    /\ Results[1].summary.level # None

---------------------------------------------------------------------------
(* C21 *)

NoLevels == <<{}, {}>>

LicLevelsOf(name) == MetricsNamed(name)[1].levels

\* C21: in the metrics the license check yields, the two representations of
\* the levels exclude each other: in percentage mode only the consumed_pct
\* metric has levels, (100 - warning, 100 - critical); in absolute mode only
\* the consumed metric has levels, (total - warning, total - critical); with
\* the total below the floor or with no levels both have (None, None); never
\* both have levels, and the total and available metrics never have any.
C21_LevelsExclusive ==
    LicYielded =>
        LET abs == LicLevelsOf("ms_intune_app_licenses_consumed")
            pct == LicLevelsOf("ms_intune_app_licenses_consumed_pct")
        IN  /\ LicLevelsOf("ms_intune_app_licenses_total") = NoLevels
            /\ LicLevelsOf("ms_intune_app_licenses_available") = NoLevels
            /\ ~ (abs # NoLevels /\ pct # NoLevels)
            /\ ~ LicLevelsActive => abs = NoLevels /\ pct = NoLevels
            /\ (LicLevelsActive /\ LicMode = "lic_unit_available_lower_pct") =>
                   /\ pct = <<{100 - LicWarn}, {100 - LicCrit}>>
                   /\ abs = NoLevels
            /\ (LicLevelsActive /\ LicMode = "lic_unit_available_lower_abs") =>
                   /\ abs = <<{LicTotal - LicWarn}, {LicTotal - LicCrit}>>
                   /\ pct = NoLevels

\* the default percentage levels on 100 licenses: consumed_pct has (90, 95)
C21_Witness ==
    /\ LicYielded
    /\ call.params = LicDefaultParams
    /\ LicTotal = 100
    /\ LicLevelsOf("ms_intune_app_licenses_consumed_pct") = <<{90}, {95}>>
    /\ LicLevelsOf("ms_intune_app_licenses_consumed") = NoLevels

---------------------------------------------------------------------------
(* C22 *)

LicPctMode == LicMode = "lic_unit_available_lower_pct"

\* the level of a metric with levels
LevelOf(levels, i) == CHOOSE level \in levels[i] : TRUE

---------------------------------------------------------------------------
(* C23 *)

LicSnapshotParsed ==
    /\ pc \in {"parsed", "discovered"}
    /\ plugin = "app_licenses"

LicKey(record) == record.app_name \o <<" ", "-", " ">> \o record.app_type

SameApp(a, b) == a.app_name = b.app_name /\ a.app_type = b.app_type

\* the last record of the document for the app of its i-th record
LastOfApp(doc, i) ==
    doc[CHOOSE j \in DOMAIN doc :
            /\ SameApp(doc[j], doc[i])
            /\ \A k \in DOMAIN doc : SameApp(doc[k], doc[i]) => k <= j]

\* C23: the license parser keys a record by "<app_name> - <app_type>" and
\* nothing else: records of one snapshot with the same name and type have one
\* entry, which holds the last of them in snapshot order, and one service is
\* discovered for them.
C23_LastRecordWins ==
    LicSnapshotParsed =>
        LET doc == payload.doc
        IN  /\ DOMAIN section = {LicKey(doc[i]) : i \in DOMAIN doc}
            /\ \A i \in DOMAIN doc :
                   section[LicKey(doc[i])] = LastOfApp(doc, i)
            /\ pc = "discovered" =>
                   /\ DOMAIN discovered =
                          {[item |-> LicKey(doc[i])] : i \in DOMAIN doc}
                   /\ \A i \in DOMAIN doc :
                          discovered[[item |-> LicKey(doc[i])]] = 1

\* two records of app X, type T, with totals 1 and 2: one entry, total 2,
\* and one service
C23_Witness ==
    /\ LicSnapshotParsed
    /\ pc = "discovered"
    /\ Len(payload.doc) = 2
    /\ SameApp(payload.doc[1], payload.doc[2])
    /\ payload.doc[1].app_license_total = 1
    /\ payload.doc[2].app_license_total = 2
    /\ Cardinality(DOMAIN section) = 1
    /\ section[LicKey(payload.doc[1])].app_license_total = 2
    /\ Cardinality(DOMAIN discovered) = 1

---------------------------------------------------------------------------
(* C24 *)

\* the documents that hold the records of doc in another order
Reordered(doc) ==
    {[i \in DOMAIN doc |-> doc[p[i]]] : p \in Permutations(DOMAIN doc)}

\* what the parse function of the cycle's plugin returns for a document
SectionOf(doc) ==
    IF plugin = "apple_ade_tokens"
    THEN parse_ms_intune_apple_ade_tokens(StringTable(doc)).parsed
    ELSE IF plugin = "apple_vpp_tokens"
    THEN parse_ms_intune_apple_vpp_tokens(StringTable(doc)).parsed
    ELSE parse_ms_intune_cert_connectors(StringTable(doc)).parsed

\* C24: for the token and connector parsers the display name of a record
\* does not depend on the order of the records: a snapshot of the same
\* records in another order gives the same mapping of names to records.
C24_OrderIndependent ==
    (pc \in {"parsed", "discovered"} /\ plugin \in NamedPlugins) =>
        \A doc \in Reordered(payload.doc) : SectionOf(doc) = section

---------------------------------------------------------------------------
(* C25 *)

ExpiredUnderLevels ==
    /\ ExpiryTimed
    /\ Remaining <= 0
    /\ ExpiryLevelsOf[1] = "fixed"
    /\ ExpiryLevelsOf[2][2] > 0

\* C25: for the ADE token, VPP token and push certificate checks with fixed
\* lower levels whose critical level is greater than 0, an entity whose
\* expiration is reached (remaining <= 0) is CRIT, whatever the other fields
\* of the record and whatever the warning level.
C25_ExpiredIsCrit ==
    ExpiredUnderLevels => Status = CRIT

\* an ADE token that expired before the reading, with the warning level
\* below the critical one: CRIT
C25_Witness ==
    /\ ExpiredUnderLevels
    /\ plugin = "apple_ade_tokens"
    /\ Remaining < 0
    /\ ExpiryLevelsOf[2][1] < ExpiryLevelsOf[2][2]
    /\ Status = CRIT

---------------------------------------------------------------------------
(* C26 *)

LicOverConsumed == LicChecked /\ LicConsumed > LicTotal /\ LicTotal > 0

\* C26: for a license record with consumed > total > 0 the check raises
\* nothing and yields one Result and four metrics; the available count of
\* the summary and the available metric are total - consumed, negative and
\* not clamped; and whenever levels are compared with a critical level >= 0,
\* in either mode, the status is CRIT.
C26_OverConsumption ==
    LicOverConsumed =>
        /\ raised = None
        /\ Len(Results) = 1
        /\ Len(yielded) = 5
        /\ \A name \in {"ms_intune_app_licenses_total",
                        "ms_intune_app_licenses_consumed",
                        "ms_intune_app_licenses_consumed_pct",
                        "ms_intune_app_licenses_available"} :
               Len(MetricsNamed(name)) = 1
        /\ Results[1].summary.available = LicTotal - LicConsumed
        /\ Results[1].summary.available < 0
        /\ LicMetric("ms_intune_app_licenses_available")
               = LicTotal - LicConsumed
        /\ (LicLevelsActive /\ LicCrit >= 0) => Status = CRIT

\* 101 of 100 consumed under the default levels: available -1, CRIT
C26_Witness ==
    /\ LicOverConsumed
    /\ call.params = LicDefaultParams
    /\ LicTotal = 100
    /\ LicConsumed = 101
    /\ LicMetric("ms_intune_app_licenses_available") = -1
    /\ Status = CRIT

=============================================================================
